---- MODULE Spec2Model ----
(***************************************************************************)
(* Model of the one-shot patch scripts of windows-claudia:                 *)
(*   fix_cross_model_memory.py, fix_final_errors.py, fix_imports.py,       *)
(*   fix_lib_modules.py, fix_remaining_errors.py,                          *)
(*   register_error_detection.py.                                          *)
(* A file's text is a sequence of tokens; every token stands for a fixed   *)
(* piece of text (named in the comments below), chosen so that the         *)
(* patterns of the scripts keep their containment relations: a             *)
(* replacement that contains its own pattern contains it as tokens too.    *)
(***************************************************************************)
EXTENDS Integers, Sequences, FiniteSets

\* ------------------------------------------------------------------ bounds
\* number of lines of text present in the target files at the start
MaxLines == 3
\* number of script invocations in a session (specification SessionSpec)
MaxRuns == 2

\* ------------------------------------------------------------------- files
cross_model_memory_rs == "cross_model_memory.rs"
error_detection_system_rs == "error_detection_system.rs"
model_disability_manager_rs == "model_disability_manager.rs"
lib_rs == "lib.rs"
error_tracker_rs == "error_tracker.rs"
context_transfer_rs == "context_transfer.rs"
main_rs == "main.rs"

Files ==
    {cross_model_memory_rs, error_detection_system_rs, model_disability_manager_rs,
     lib_rs, error_tracker_rs, context_transfer_rs, main_rs}

\* ------------------------------------------------------ string operations
\* s[from..] as a sequence
Drop(s, n) == SubSeq(s, n + 1, Len(s))

\* s.startswith(p)
StartsWith(s, p) == Len(p) <= Len(s) /\ SubSeq(s, 1, Len(p)) = p

\* `old in text`
Contains(text, old) ==
    \E i \in 0..(Len(text) - Len(old)) : SubSeq(text, i + 1, i + Len(old)) = old

\* text.count(old): non-overlapping occurrences, scanning left to right
RECURSIVE CountOcc(_, _)
CountOcc(text, old) ==
    IF Len(text) < Len(old) THEN 0
    ELSE IF StartsWith(text, old) THEN 1 + CountOcc(Drop(text, Len(old)), old)
    ELSE CountOcc(Tail(text), old)

\* str.replace(old, new): every non-overlapping occurrence, left to right;
\* the replacement text is not scanned again
RECURSIVE Replace(_, _, _)
Replace(text, old, new) ==
    IF Len(text) < Len(old) THEN text
    ELSE IF StartsWith(text, old) THEN new \o Replace(Drop(text, Len(old)), old, new)
    ELSE <<Head(text)>> \o Replace(Tail(text), old, new)

\* position of the first token of s at or after index i that lies in set T,
\* 0 when there is none
RECURSIVE FirstIn(_, _, _)
FirstIn(s, i, T) ==
    IF i > Len(s) THEN 0
    ELSE IF s[i] \in T THEN i
    ELSE FirstIn(s, i + 1, T)

\* the tokens of s that lie in T, as a set
TokensIn(s, T) == {s[i] : i \in DOMAIN s} \cap T

\* ----------------------------------------------- cross_model_memory.rs text
\* "#[derive(Debug, Clone, Serialize, Deserialize"
MT_HEAD == "#[derive(Debug, Clone, Serialize, Deserialize"
\* ", PartialEq"
PARTIALEQ == ", PartialEq"
\* ")]\npub enum MemoryType {"
MT_TAIL == ")]\npub enum MemoryType {"
\* the search_memories block of fix_final_errors.py lines 12-41
OLD_CODE == "let sql = if let Some(sid) ... vec![&search_pattern] };"
\* the replacement block of fix_final_errors.py lines 43-67
NEW_CODE == "let search_pattern ... let (sql, params) ... conn.prepare(&sql)?;"
UNDERSCORE == "_"
TARGET_MODEL == "target_model: String,"

\* fix_cross_model_memory: old_line / new_line
MemoryType_old_line == <<MT_HEAD, MT_TAIL>>
MemoryType_new_line == <<MT_HEAD, PARTIALEQ, MT_TAIL>>

\* ------------------------------------------- error_detection_system.rs text
\* "use tauri::{command, AppHandle, Emitter, State"
EDS_IMPORT_HEAD == "use tauri::{command, AppHandle, Emitter, State"
COMMA_MANAGER == ", Manager"
CLOSE_BRACE == "};"
\* start_monitoring with the tokio::spawn loop, fix_remaining_errors.py 57-77
OLD_FUNCTION == "pub async fn start_monitoring(.., db: ..) { tokio::spawn(..) }"
\* start_monitoring without the loop, fix_remaining_errors.py 79-90
NEW_FUNCTION == "pub async fn start_monitoring(.., _db: ..) { Ok(()) }"
OLD_HEALTH == "async fn check_session_health(&self, session_id: &str, app_handle: .., db: ..) {"
NEW_HEALTH == "async fn check_session_health(&self, _session_id: &str, _app_handle: .., _db: ..) {"

old_import == <<EDS_IMPORT_HEAD, CLOSE_BRACE>>
new_import == <<EDS_IMPORT_HEAD, COMMA_MANAGER, CLOSE_BRACE>>

\* ----------------------------------------- model_disability_manager.rs text
\* "use tauri::{"
USE_TAURI_BRACE == "use tauri::{"
\* "use tauri::AppHandle;" : a tauri import that is not in brace form
USE_TAURI_PLAIN == "use tauri::AppHandle;"
APPHANDLE == "AppHandle"
STATE_NAME == "State"
MANAGER == "Manager"
COMMA_EMITTER == ", Emitter"
\* "\n"
NEWLINE == "<newline>"
OTHER_TEXT == "const OTHER: u8 = 0;"

\* The token classes below range over the tokens of model_disability_manager.rs.
\* tokens whose text contains "use tauri::"
UseTauriTokens == {USE_TAURI_BRACE, USE_TAURI_PLAIN}
\* tokens whose text contains "}" : they end the [^}]* of the pattern
BraceTokens == {CLOSE_BRACE}
\* tokens whose text contains "Manager" / "Emitter"
ManagerTokens == {MANAGER, COMMA_MANAGER}
EmitterTokens == {COMMA_EMITTER}
\* tokens that str.strip() removes
SpaceTokens == {NEWLINE}

\* ------------------------------------------------------------- lib.rs text
\* "// Declare modules\npub mod checkpoint; ... pub mod process;\n"
LIB_HEAD == "// Declare modules .. pub mod process;"
\* "pub mod sidecar_wrapper;\n"
LIB_SIDECAR == "pub mod sidecar_wrapper;"
\* "pub mod windows_command;\npub mod runtime_utils;"
LIB_WINDOWS == "pub mod windows_command; pub mod runtime_utils;"
\* "\npub mod adapters;\npub mod auto_resolution;"
LIB_ADAPTERS == "pub mod adapters; pub mod auto_resolution;"

old_modules == <<LIB_HEAD, LIB_WINDOWS>>
new_modules == <<LIB_HEAD, LIB_SIDECAR, LIB_WINDOWS, LIB_ADAPTERS>>

\* --------------------------------------------------- error_tracker.rs text
\* "#[derive(Debug"
RT_HEAD_OTHER == "#[derive(Debug"
\* ")]\npub enum ResolutionType {"
RT_TAIL == ")]\npub enum ResolutionType {"
\* ")]  pub enum ResolutionType {" : other whitespace than the exact string's
RT_TAIL_SPACED == ")]  pub enum ResolutionType {"

\* tokens that start with "#[derive("
DeriveHeads == {MT_HEAD, RT_HEAD_OTHER}
\* tokens that contain "]" (here: that are ")]\s*pub enum ResolutionType {")
DeriveTails == {RT_TAIL, RT_TAIL_SPACED}
\* tokens whose text contains "PartialEq"
PartialEqTokens == {PARTIALEQ}

ResolutionType_old_line == <<MT_HEAD, RT_TAIL>>
ResolutionType_new_line == <<MT_HEAD, PARTIALEQ, RT_TAIL>>

\* ------------------------------------------------ context_transfer.rs text
\* "        transferred_memories: filtered_memories"
TRANSFERRED == "        transferred_memories: filtered_memories"
DOT_CLONE == ".clone()"
COMMA == ","

ctx_old_line == <<TRANSFERRED, COMMA>>
ctx_new_line == <<TRANSFERRED, DOT_CLONE, COMMA>>

\* ------------------------------------------------------------ main.rs text
\* "use commands::error_tracker::{track_error, ..., search_errors};"
IMPORT_LINE == "use commands::error_tracker::{..};"
\* "\nuse commands::error_detection_system::{...};"
DETECTION_IMPORT == "use commands::error_detection_system::{..};"
\* "// Error Tracking System\n track_error, ... search_errors,"
OLD_SECTION == "// Error Tracking System .. search_errors,"
\* "\n\n// Error Detection System\n initialize_error_detection_system, ..."
DETECTION_SECTION == "// Error Detection System .. get_error_detection_status,"

import_line == <<IMPORT_LINE>>
new_import_line == <<IMPORT_LINE, DETECTION_IMPORT>>
old_section == <<OLD_SECTION>>
new_section == <<OLD_SECTION, DETECTION_SECTION>>

\* ------------------------------------------------------------- transforms
\* fix_cross_model_memory: content.replace(old_line, new_line)
MemoryTypeEdit(content) == Replace(content, MemoryType_old_line, MemoryType_new_line)

\* fix_cross_model_memory_borrowing: content.replace(old_code, new_code)
BorrowingEdit(content) == Replace(content, <<OLD_CODE>>, <<NEW_CODE>>)

\* content.replace("target_model: String,", "_target_model: String,")
TargetModelEdit(content) == Replace(content, <<TARGET_MODEL>>, <<UNDERSCORE, TARGET_MODEL>>)

\* fix_error_detection_imports: content.replace(old_import, new_import)
ErrorDetectionImportsEdit(content) == Replace(content, old_import, new_import)

\* str.strip() of a matched group
RECURSIVE Strip(_)
Strip(s) ==
    IF s = <<>> THEN s
    ELSE IF Head(s) \in SpaceTokens THEN Strip(Tail(s))
    ELSE IF s[Len(s)] \in SpaceTokens THEN Strip(SubSeq(s, 1, Len(s) - 1))
    ELSE s

\* re.search(r"use tauri::\{([^}]*)\};", text) from index `from`:
\* <<start, end>> of the leftmost match, <<0, 0>> when there is none.  A match
\* starts at "use tauri::{", runs over text without "}" and ends at "};".
RECURSIVE TauriSearch(_, _)
TauriSearch(text, from) ==
    LET i == FirstIn(text, from, {USE_TAURI_BRACE})
        j == IF i = 0 THEN 0 ELSE FirstIn(text, i + 1, BraceTokens)
    IN  IF i = 0 THEN <<0, 0>>
        ELSE IF j # 0 /\ text[j] = CLOSE_BRACE THEN <<i, j>>
        ELSE TauriSearch(text, i + 1)

\* re.sub(old_pattern, repl, text): every non-overlapping match, left to right
RECURSIVE TauriSub(_, _, _)
TauriSub(text, from, repl) ==
    LET m == TauriSearch(text, from)
    IN  IF m[1] = 0 THEN Drop(text, from - 1)
        ELSE SubSeq(text, from, m[1] - 1) \o repl \o TauriSub(text, m[2] + 1, repl)

\* fix_model_disability_imports, lines 28-43
ModelDisabilityImportsEdit(content) ==
    IF \E i \in DOMAIN content : content[i] \in UseTauriTokens
    THEN LET match == TauriSearch(content, 1)
         IN  IF match[1] = 0 THEN content
             ELSE LET imports0 == Strip(SubSeq(content, match[1] + 1, match[2] - 1))
                      imports1 == IF TokensIn(imports0, ManagerTokens) = {}
                                  THEN Append(imports0, COMMA_MANAGER) ELSE imports0
                      imports2 == IF TokensIn(imports1, EmitterTokens) = {}
                                  THEN Append(imports1, COMMA_EMITTER) ELSE imports1
                  IN  TauriSub(content, 1, <<USE_TAURI_BRACE>> \o imports2 \o <<CLOSE_BRACE>>)
    ELSE <<USE_TAURI_BRACE, MANAGER, COMMA_EMITTER, CLOSE_BRACE, NEWLINE>> \o content

\* fix_lib_modules: content.replace(old_modules, new_modules)
LibModulesEdit(content) == Replace(content, old_modules, new_modules)

\* re.search of r"(#\[derive\([^\]]*\)\]\s*pub enum ResolutionType \{)" from
\* index `from`: a match starts at "#[derive(", runs over text without "]"
\* and ends at ")]\s*pub enum ResolutionType {"
RECURSIVE DeriveSearch(_, _)
DeriveSearch(text, from) ==
    LET i == FirstIn(text, from, DeriveHeads)
        j == IF i = 0 THEN 0 ELSE FirstIn(text, i + 1, DeriveTails)
    IN  IF i = 0 THEN <<0, 0>>
        ELSE IF j # 0 THEN <<i, j>>
        ELSE DeriveSearch(text, i + 1)

\* add_partialeq(match): ")]" occurs once in a match, in its last token
add_partialeq(derive_line) ==
    IF TokensIn(derive_line, PartialEqTokens) = {}
    THEN SubSeq(derive_line, 1, Len(derive_line) - 1)
             \o <<PARTIALEQ, derive_line[Len(derive_line)]>>
    ELSE derive_line

\* re.sub(pattern, add_partialeq, content)
RECURSIVE DeriveSub(_, _)
DeriveSub(text, from) ==
    LET m == DeriveSearch(text, from)
    IN  IF m[1] = 0 THEN Drop(text, from - 1)
        ELSE SubSeq(text, from, m[1] - 1) \o add_partialeq(SubSeq(text, m[1], m[2]))
                 \o DeriveSub(text, m[2] + 1)

\* fix_resolution_type, lines 15-27: the exact string, else the pattern
ResolutionTypeEdit(content) ==
    IF Contains(content, ResolutionType_old_line)
    THEN Replace(content, ResolutionType_old_line, ResolutionType_new_line)
    ELSE DeriveSub(content, 1)

MSG_RT_EXACT == "Fixed ResolutionType PartialEq derivation"
MSG_RT_PATTERN == "Fixed ResolutionType with pattern matching"

\* the print inside the two branches of fix_resolution_type
ResolutionTypeMessage(content) ==
    IF Contains(content, ResolutionType_old_line) THEN MSG_RT_EXACT ELSE MSG_RT_PATTERN

\* fix_context_transfer_move: content.replace(old_line, new_line)
ContextTransferEdit(content) == Replace(content, ctx_old_line, ctx_new_line)

\* fix_error_detection_lifetime: content.replace(old_function, new_function)
LifetimeEdit(content) == Replace(content, <<OLD_FUNCTION>>, <<NEW_FUNCTION>>)

\* fix_error_detection_lifetime: the check_session_health replace
SessionHealthEdit(content) == Replace(content, <<OLD_HEALTH>>, <<NEW_HEALTH>>)

\* register_error_detection_commands: content.replace(import_line, new_import_line)
RegisterImportEdit(content) == Replace(content, import_line, new_import_line)

\* register_error_detection_commands: content.replace(old_section, new_section)
RegisterSectionEdit(content) == Replace(content, old_section, new_section)

\* the edits of the scripts, by name
LiteralEdits ==
    {"MemoryTypeEdit", "BorrowingEdit", "TargetModelEdit", "ErrorDetectionImportsEdit",
     "LibModulesEdit", "ContextTransferEdit", "LifetimeEdit", "SessionHealthEdit",
     "RegisterImportEdit", "RegisterSectionEdit"}

\* the literal `old` argument of a str.replace edit
Pattern(edit) ==
    CASE edit = "MemoryTypeEdit" -> MemoryType_old_line
      [] edit = "BorrowingEdit" -> <<OLD_CODE>>
      [] edit = "TargetModelEdit" -> <<TARGET_MODEL>>
      [] edit = "ErrorDetectionImportsEdit" -> old_import
      [] edit = "LibModulesEdit" -> old_modules
      [] edit = "ContextTransferEdit" -> ctx_old_line
      [] edit = "LifetimeEdit" -> <<OLD_FUNCTION>>
      [] edit = "SessionHealthEdit" -> <<OLD_HEALTH>>
      [] edit = "RegisterImportEdit" -> import_line
      [] edit = "RegisterSectionEdit" -> old_section

\* the text an edit statement assigns to `content`
ApplyEdit(edit, content) ==
    CASE edit = "MemoryTypeEdit" -> MemoryTypeEdit(content)
      [] edit = "BorrowingEdit" -> BorrowingEdit(content)
      [] edit = "TargetModelEdit" -> TargetModelEdit(content)
      [] edit = "ErrorDetectionImportsEdit" -> ErrorDetectionImportsEdit(content)
      [] edit = "ModelDisabilityImportsEdit" -> ModelDisabilityImportsEdit(content)
      [] edit = "LibModulesEdit" -> LibModulesEdit(content)
      [] edit = "ResolutionTypeEdit" -> ResolutionTypeEdit(content)
      [] edit = "ContextTransferEdit" -> ContextTransferEdit(content)
      [] edit = "LifetimeEdit" -> LifetimeEdit(content)
      [] edit = "SessionHealthEdit" -> SessionHealthEdit(content)
      [] edit = "RegisterImportEdit" -> RegisterImportEdit(content)
      [] edit = "RegisterSectionEdit" -> RegisterSectionEdit(content)

\* what an edit statement prints while it runs
EditOutput(edit, content) ==
    IF edit = "ResolutionTypeEdit" THEN <<ResolutionTypeMessage(content)>> ELSE <<>>

\* ---------------------------------------------------------------- programs
Scripts ==
    {"fix_cross_model_memory.py", "fix_final_errors.py", "fix_imports.py",
     "fix_lib_modules.py", "fix_remaining_errors.py", "register_error_detection.py"}

\* the calls under `if __name__ == "__main__":`, in order
Main(s) ==
    CASE s = "fix_cross_model_memory.py" -> <<"fix_cross_model_memory">>
      [] s = "fix_final_errors.py" -> <<"fix_cross_model_memory_borrowing">>
      [] s = "fix_imports.py" ->
            <<"fix_error_detection_imports", "fix_model_disability_imports">>
      [] s = "fix_lib_modules.py" -> <<"fix_lib_modules">>
      [] s = "fix_remaining_errors.py" ->
            <<"fix_resolution_type", "fix_context_transfer_move",
              "fix_error_detection_lifetime">>
      [] s = "register_error_detection.py" -> <<"register_error_detection_commands">>

Functions == UNION {{Main(s)[i] : i \in DOMAIN Main(s)} : s \in Scripts}

\* file_path of a function
Target(fn) ==
    CASE fn = "fix_cross_model_memory" -> cross_model_memory_rs
      [] fn = "fix_cross_model_memory_borrowing" -> cross_model_memory_rs
      [] fn = "fix_error_detection_imports" -> error_detection_system_rs
      [] fn = "fix_model_disability_imports" -> model_disability_manager_rs
      [] fn = "fix_lib_modules" -> lib_rs
      [] fn = "fix_resolution_type" -> error_tracker_rs
      [] fn = "fix_context_transfer_move" -> context_transfer_rs
      [] fn = "fix_error_detection_lifetime" -> error_detection_system_rs
      [] fn = "register_error_detection_commands" -> main_rs

Targets(s) == {Target(Main(s)[i]) : i \in DOMAIN Main(s)}

\* the final print of a function ("" for fix_resolution_type, which has none)
DoneMessage(fn) ==
    CASE fn = "fix_cross_model_memory" -> "Fixed MemoryType PartialEq derivation"
      [] fn = "fix_cross_model_memory_borrowing" ->
            "Fixed cross_model_memory.rs borrowing and lifetime issues"
      [] fn = "fix_error_detection_imports" -> "Fixed error_detection_system.rs imports"
      [] fn = "fix_model_disability_imports" -> "Fixed model_disability_manager.rs imports"
      [] fn = "fix_lib_modules" -> "Added missing module declarations to lib.rs"
      [] fn = "fix_resolution_type" -> ""
      [] fn = "fix_context_transfer_move" -> "Fixed context_transfer.rs move error"
      [] fn = "fix_error_detection_lifetime" ->
            "Fixed error_detection_system.rs lifetime issue"
      [] fn = "register_error_detection_commands" ->
            "Registered error detection commands in main.rs"

\* the edit statements of a function, in order
EditsOf(fn) ==
    CASE fn = "fix_cross_model_memory" -> <<"MemoryTypeEdit">>
      [] fn = "fix_cross_model_memory_borrowing" -> <<"BorrowingEdit", "TargetModelEdit">>
      [] fn = "fix_error_detection_imports" -> <<"ErrorDetectionImportsEdit">>
      [] fn = "fix_model_disability_imports" -> <<"ModelDisabilityImportsEdit">>
      [] fn = "fix_lib_modules" -> <<"LibModulesEdit">>
      [] fn = "fix_resolution_type" -> <<"ResolutionTypeEdit">>
      [] fn = "fix_context_transfer_move" -> <<"ContextTransferEdit">>
      [] fn = "fix_error_detection_lifetime" -> <<"LifetimeEdit", "SessionHealthEdit">>
      [] fn = "register_error_detection_commands" ->
            <<"RegisterImportEdit", "RegisterSectionEdit">>

Stmt(kind, arg) == [kind |-> kind, arg |-> arg]

\* a body that writes the file back after every edit
BodyWriteEachEdit(fn) ==
    <<Stmt("read", "")>>
        \o [i \in 1..(2 * Len(EditsOf(fn))) |->
               IF i % 2 = 1 THEN Stmt("edit", EditsOf(fn)[(i + 1) \div 2])
               ELSE Stmt("write", "")]
        \o (IF DoneMessage(fn) = "" THEN <<>> ELSE <<Stmt("print", DoneMessage(fn))>>)

\* the statements of a function: open/read, the edits, open/write, print
Body(fn) ==
    <<Stmt("read", "")>>
        \o [i \in 1..Len(EditsOf(fn)) |-> Stmt("edit", EditsOf(fn)[i])]
        \o <<Stmt("write", "")>>
        \o (IF DoneMessage(fn) = "" THEN <<>> ELSE <<Stmt("print", DoneMessage(fn))>>)

\* ------------------------------------------------------------------- state
VARIABLES
    fs,        \* the text of every target file on disk
    script,    \* the script being (or last) executed, "" before the first
    status,    \* "idle", "running", "done" (exit 0) or "failed" (uncaught exception)
    pc,        \* index into Main(script) of the function being executed
    ip,        \* index into the body of that function of the next statement
    content,   \* the local variable `content` of the function being executed
    out,       \* what the current execution has printed
    log,       \* the file operations of the current execution, in order
    applied,   \* the functions that have written their file, over all executions
    budget     \* script invocations left

vars == <<fs, script, status, pc, ip, content, out, log, applied, budget>>

\* a file operation: `before` is the text the operation started from (the text
\* on disk for a read or a write, `content` for an edit), `text` the text read,
\* assigned or written
Event(op, fn, edit, before, text) ==
    [op |-> op, fn |-> fn, file |-> Target(fn), edit |-> edit, before |-> before,
     text |-> text]

CurrentFn == Main(script)[pc]
CurrentStmt == Body(CurrentFn)[ip]
Running(kind) == status = "running" /\ CurrentStmt.kind = kind
LastStmt == ip = Len(Body(CurrentFn))
LastFn == pc = Len(Main(script))

\* control after a statement that did not raise: the next statement, the next
\* call of __main__, or the end of the script
Advance ==
    IF ~LastStmt THEN /\ ip' = ip + 1
                      /\ UNCHANGED <<pc, status>>
    ELSE IF ~LastFn THEN /\ pc' = pc + 1
                         /\ ip' = 1
                         /\ UNCHANGED status
    ELSE /\ status' = "done"
         /\ UNCHANGED <<pc, ip>>

\* `content` goes out of scope when its function returns
ContentAfter(c) == IF LastStmt THEN <<>> ELSE c

\* python <script>
Invoke(s) ==
    /\ status # "running"
    /\ budget > 0
    /\ script' = s
    /\ status' = "running"
    /\ pc' = 1
    /\ ip' = 1
    /\ content' = <<>>
    /\ out' = <<>>
    /\ log' = <<>>
    /\ budget' = budget - 1
    /\ UNCHANGED <<fs, applied>>

\* with open(file_path, 'r') as f: content = f.read()
Read ==
    /\ Running("read")
    /\ content' = fs[Target(CurrentFn)]
    /\ log' = Append(log, Event("read", CurrentFn, "", fs[Target(CurrentFn)],
                                fs[Target(CurrentFn)]))
    /\ Advance
    /\ UNCHANGED <<fs, script, out, applied, budget>>

\* open(file_path, 'r') raises (missing file, permission denied): nothing
\* catches it, the script ends with a traceback
ReadFails ==
    /\ Running("read")
    /\ status' = "failed"
    /\ log' = Append(log, Event("read_failed", CurrentFn, "", <<>>, <<>>))
    /\ UNCHANGED <<fs, script, pc, ip, content, out, applied, budget>>

\* content = content.replace(...) / re.sub(...), with the prints of the branch
Edit ==
    /\ Running("edit")
    /\ content' = ApplyEdit(CurrentStmt.arg, content)
    /\ out' = out \o EditOutput(CurrentStmt.arg, content)
    /\ log' = Append(log, Event("apply", CurrentFn, CurrentStmt.arg, content,
                                ApplyEdit(CurrentStmt.arg, content)))
    /\ Advance
    /\ UNCHANGED <<fs, script, applied, budget>>

\* with open(file_path, 'w') as f: f.write(content)
Write ==
    /\ Running("write")
    /\ fs' = [fs EXCEPT ![Target(CurrentFn)] = content]
    /\ log' = Append(log, Event("write", CurrentFn, "", fs[Target(CurrentFn)],
                                content))
    /\ applied' = Append(applied, CurrentFn)
    /\ content' = ContentAfter(content)
    /\ Advance
    /\ UNCHANGED <<script, out, budget>>

\* open(file_path, 'w') raises (permission denied): the file keeps its text
WriteFails ==
    /\ Running("write")
    /\ status' = "failed"
    /\ content' = <<>>
    /\ log' = Append(log, Event("write_failed", CurrentFn, "", <<>>, <<>>))
    /\ UNCHANGED <<fs, script, pc, ip, out, applied, budget>>

\* print("Fixed ...")
EmitMessage ==
    /\ Running("print")
    /\ out' = Append(out, CurrentStmt.arg)
    /\ content' = ContentAfter(content)
    /\ Advance
    /\ UNCHANGED <<fs, script, log, applied, budget>>

Next ==
    \/ \E s \in Scripts : Invoke(s)
    \/ Read
    \/ ReadFails
    \/ Edit
    \/ Write
    \/ WriteFails
    \/ EmitMessage

\* ----------------------------------------------------------- initial texts
\* lines a target file may hold at the start: the text a patch looks for, the
\* text it leaves, and text near to both
Lines(f) ==
    CASE f = cross_model_memory_rs ->
            {MemoryType_old_line, MemoryType_new_line, <<OLD_CODE>>, <<NEW_CODE>>,
             <<TARGET_MODEL>>, <<UNDERSCORE, TARGET_MODEL>>}
      [] f = error_detection_system_rs ->
            {old_import, new_import, <<OLD_FUNCTION>>, <<NEW_FUNCTION>>,
             <<OLD_HEALTH>>, <<NEW_HEALTH>>}
      [] f = model_disability_manager_rs ->
            {<<USE_TAURI_BRACE, APPHANDLE, CLOSE_BRACE>>,
             <<USE_TAURI_BRACE, STATE_NAME, CLOSE_BRACE>>,
             <<USE_TAURI_BRACE, NEWLINE, APPHANDLE, COMMA_EMITTER, NEWLINE, CLOSE_BRACE>>,
             <<USE_TAURI_BRACE, APPHANDLE, COMMA_MANAGER, COMMA_EMITTER, CLOSE_BRACE>>,
             <<USE_TAURI_PLAIN>>, <<OTHER_TEXT>>}
      [] f = lib_rs -> {old_modules, new_modules, <<LIB_HEAD>>, <<LIB_WINDOWS>>}
      [] f = error_tracker_rs ->
            {ResolutionType_old_line, ResolutionType_new_line,
             <<RT_HEAD_OTHER, RT_TAIL>>, <<RT_HEAD_OTHER, PARTIALEQ, RT_TAIL_SPACED>>,
             <<MT_HEAD, RT_TAIL_SPACED>>, <<OTHER_TEXT>>}
      [] f = context_transfer_rs -> {ctx_old_line, ctx_new_line, <<OTHER_TEXT>>}
      [] f = main_rs -> {import_line, new_import_line, old_section, new_section}

\* the texts made of exactly n lines of L
RECURSIVE TextsOf(_, _)
TextsOf(L, n) ==
    IF n = 0 THEN {<<>>}
    ELSE {l \o t : l \in L, t \in TextsOf(L, n - 1)}

RECURSIVE SumOver(_, _)
SumOver(n, F) ==
    IF F = {} THEN 0
    ELSE LET f == CHOOSE x \in F : TRUE IN n[f] + SumOver(n, F \ {f})

\* for every split of at most MaxLines lines over the targets of script s,
\* the texts each file may hold (every other file is empty)
FileSystems(s) ==
    {[f \in Files |-> TextsOf(Lines(f), n[f])] :
        n \in {m \in [Files -> 0..MaxLines] :
                  /\ \A f \in Files \ Targets(s) : m[f] = 0
                  /\ SumOver(m, Files) <= MaxLines}}

Idle ==
    /\ script = ""
    /\ status = "idle"
    /\ pc = 1
    /\ ip = 1
    /\ content = <<>>
    /\ out = <<>>
    /\ log = <<>>
    /\ applied = <<>>

\* one execution of one script, on any bounded text of its target files
Init ==
    /\ \E s \in Scripts : \E texts \in FileSystems(s) :
           \E t1 \in texts[cross_model_memory_rs], t2 \in texts[error_detection_system_rs],
              t3 \in texts[model_disability_manager_rs], t4 \in texts[lib_rs],
              t5 \in texts[error_tracker_rs], t6 \in texts[context_transfer_rs],
              t7 \in texts[main_rs] :
               fs = [f \in Files |->
                       CASE f = cross_model_memory_rs -> t1
                         [] f = error_detection_system_rs -> t2
                         [] f = model_disability_manager_rs -> t3
                         [] f = lib_rs -> t4
                         [] f = error_tracker_rs -> t5
                         [] f = context_transfer_rs -> t6
                         [] f = main_rs -> t7]
    /\ Idle
    /\ budget = 1

Spec == Init /\ [][Next]_vars

\* a session of up to MaxRuns executions over lib.rs and main.rs, unpatched
\* or empty at the start
SessionInit ==
    /\ \E l \in {<<>>, old_modules}, m \in {<<>>, import_line \o old_section} :
           fs = [f \in Files |-> IF f = lib_rs THEN l ELSE IF f = main_rs THEN m ELSE <<>>]
    /\ Idle
    /\ budget = MaxRuns

SessionSpec == SessionInit /\ [][Next]_vars

\* ------------------------------------------------------------------ claims
Range(s) == {s[i] : i \in DOMAIN s}
Events(op) == {i \in DOMAIN log : log[i].op = op}

\* C1: idempotence.  Every edit a script has performed, applied a second time
\* to the text it produced, leaves that text unchanged.
C1_Idempotent ==
    \A i \in Events("apply") : ApplyEdit(log[i].edit, log[i].text) = log[i].text

\* C2: ambiguity safety.  A str.replace edit whose pattern occurs two or more
\* times in the text substitutes nothing, and a function made of that one edit
\* writes back the text it read.
C2_AmbiguitySafe ==
    \A i \in Events("apply") :
        (log[i].edit \in LiteralEdits /\ CountOcc(log[i].before, Pattern(log[i].edit)) >= 2)
            => /\ log[i].text = log[i].before
               /\ \A w \in Events("write") :
                      (log[w].fn = log[i].fn /\ Len(EditsOf(log[i].fn)) = 1)
                          => log[w].text = log[w].before

\* C3: write minimization.  A file is written back only if the text written
\* differs from the text that was read from it.
C3_WriteMinimal ==
    \A w \in Events("write") : \A r \in Events("read") :
        log[r].file = log[w].file => log[w].text # log[r].text

\* C4: no-op safety.  When the text does not contain the pattern of a
\* str.replace edit, the edit leaves the text identical and the function does
\* not report a successful fix.
C4_NoOpSafe ==
    \A i \in Events("apply") :
        (log[i].edit \in LiteralEdits /\ ~Contains(log[i].before, Pattern(log[i].edit)))
            => /\ log[i].text = log[i].before
               /\ DoneMessage(log[i].fn) \notin Range(out)

\* C5: error isolation.  When an execution has failed on one file, every
\* function of the script that targets another file has still been processed.
C5_ErrorIsolated ==
    status = "failed" =>
        \A k \in DOMAIN Main(script) :
            (\A i \in Events("read_failed") \cup Events("write_failed") :
                 log[i].file # Target(Main(script)[k]))
                => \E r \in Events("read") : log[r].fn = Main(script)[k]

\* C6: ordering.  Whenever register_error_detection_commands has written
\* main.rs, fix_lib_modules has written lib.rs before it.
C6_LibBeforeMain ==
    \A i \in DOMAIN applied :
        applied[i] = "register_error_detection_commands"
            => \E j \in 1..(i - 1) : applied[j] = "fix_lib_modules"

\* the edits applied to file f before position w of the log, in order
RECURSIVE EditsBefore(_, _)
EditsBefore(f, w) ==
    IF w <= 1 THEN <<>>
    ELSE IF log[w - 1].op = "apply" /\ log[w - 1].file = f
         THEN Append(EditsBefore(f, w - 1), log[w - 1].edit)
         ELSE EditsBefore(f, w - 1)

\* C7: file session discipline.  Within one execution every file is opened for
\* reading at most once and for writing at most once, a successful read
\* precedes the write, every edit of the file lies between the two and starts
\* from the text the previous step left, and the write comes after all edits
\* of the function and writes their result.
C7_FileSession ==
    \A f \in Files :
        LET R == {i \in Events("read") \cup Events("read_failed") : log[i].file = f}
            W == {i \in Events("write") \cup Events("write_failed") : log[i].file = f}
            A == {i \in Events("apply") : log[i].file = f}
        IN  /\ Cardinality(R) <= 1
            /\ Cardinality(W) <= 1
            /\ \A w \in W : \E r \in R : r < w /\ log[r].op = "read"
            /\ \A a \in A : /\ \E r \in R : r < a /\ log[r].op = "read"
                            /\ \A w \in W : a < w
                            /\ log[a - 1].file = f
                            /\ log[a - 1].op \in {"read", "apply"}
                            /\ log[a].before = log[a - 1].text
            /\ \A w \in W : /\ EditsBefore(f, w) = EditsOf(log[w].fn)
                            /\ log[w - 1].file = f
                            /\ log[w - 1].op = "apply"
                            /\ log[w].op = "write" => log[w].text = log[w - 1].text

\* C7 witness: fix_remaining_errors.py has run to its end and its last
\* function has written a changed error_detection_system.rs after two edits.
C7_Witness ==
    /\ status = "done"
    /\ script = "fix_remaining_errors.py"
    /\ Cardinality(Events("write")) = 3
    /\ \E w \in Events("write") :
           /\ log[w].fn = "fix_error_detection_lifetime"
           /\ log[w].text # log[w].before
           /\ log[w - 1].edit = "SessionHealthEdit"
           /\ log[w - 2].edit = "LifetimeEdit"

\* the name a token imports, "" for a token that is not a name
NameOf(t) ==
    CASE t = APPHANDLE -> "AppHandle"
      [] t = STATE_NAME -> "State"
      [] t \in ManagerTokens -> "Manager"
      [] t \in EmitterTokens -> "Emitter"
      [] OTHER -> ""

\* the names listed by text[i+1..j-1]
NamesBetween(text, i, j) == {NameOf(text[k]) : k \in (i + 1)..(j - 1)} \ {""}

\* the `use tauri::{...};` statements of a text, as <<start, end>> in order
RECURSIVE TauriStatements(_, _)
TauriStatements(text, from) ==
    LET m == TauriSearch(text, from)
    IN  IF m[1] = 0 THEN <<>> ELSE <<m>> \o TauriStatements(text, m[2] + 1)

\* the text outside the `use tauri::{...};` statements, piece by piece
RECURSIVE OutsideTauri(_, _)
OutsideTauri(text, from) ==
    LET m == TauriSearch(text, from)
    IN  IF m[1] = 0 THEN <<Drop(text, from - 1)>>
        ELSE <<SubSeq(text, from, m[1] - 1)>> \o OutsideTauri(text, m[2] + 1)

\* C8: the text fix_model_disability_imports writes back contains a
\* `use tauri::{...};` statement that lists both Manager and Emitter.
C8_BothImported ==
    \A w \in Events("write") :
        log[w].fn = "fix_model_disability_imports"
            => \E k \in DOMAIN TauriStatements(log[w].text, 1) :
                   LET m == TauriStatements(log[w].text, 1)[k]
                   IN  {"Manager", "Emitter"} \subseteq NamesBetween(log[w].text, m[1], m[2])

\* the `#[derive(...)] pub enum ResolutionType {` occurrences of a text
RECURSIVE DeriveOccurrences(_, _)
DeriveOccurrences(text, from) ==
    LET m == DeriveSearch(text, from)
    IN  IF m[1] = 0 THEN {} ELSE {m} \cup DeriveOccurrences(text, m[2] + 1)

\* C9: after fix_resolution_type's edit every derive list in front of
\* `pub enum ResolutionType {` holds PartialEq exactly once, and a
\* "Fixed ResolutionType ..." message is printed only when the text changed.
C9_PartialEqAdded ==
    \A i \in Events("apply") :
        log[i].edit = "ResolutionTypeEdit"
            => /\ \A m \in DeriveOccurrences(log[i].text, 1) :
                      Cardinality({k \in m[1]..m[2] : log[i].text[k] \in PartialEqTokens}) = 1
               /\ (Range(out) \cap {MSG_RT_EXACT, MSG_RT_PATTERN} # {})
                      => log[i].text # log[i].before

\* C10: fix_model_disability_imports only adds names.  Every
\* `use tauri::{...};` statement of the text read is still a statement at the
\* same position of the text produced, with every name it listed, and the text
\* outside the statements is unchanged.
C10_OnlyAddsNames ==
    \A i \in Events("apply") :
        log[i].edit = "ModelDisabilityImportsEdit"
            => LET old == TauriStatements(log[i].before, 1)
                   new == TauriStatements(log[i].text, 1)
               IN  old # <<>> =>
                       /\ Len(new) = Len(old)
                       /\ \A k \in DOMAIN old :
                              NamesBetween(log[i].before, old[k][1], old[k][2])
                                  \subseteq NamesBetween(log[i].text, new[k][1], new[k][2])
                       /\ OutsideTauri(log[i].text, 1) = OutsideTauri(log[i].before, 1)

====
